---- MODULE Spec2Model ----
(***************************************************************************)
(* Model of the dependency-injection container of yoyofx/inject:           *)
(* New/compile (register, wire, verify cycles, apply modifiers), the       *)
(* definition storage (add, get, all) and Populate.                        *)
(***************************************************************************)
EXTENDS Naturals, Integers, Sequences, FiniteSets, TLC

\* Longest option list handed to New.
MaxOptions == 3
\* Most invocations of one constructor that the model follows.
MaxCalls == 2

\* Most outputs of a constructor handed to the provider wrapper, and the
\* longest list of such constructors.
MaxOutputs == 3
MaxWrapped == 2
\* Most goroutines calling Populate at the same time, and the longest
\* provider list of the container they share.
MaxCallers == 2
MaxProvided == 2

\* container.go:9-13
visitMarkUnmarked == 0
visitMarkTemporary == 1
visitMarkPermanent == 2

(***************************************************************************)
(* Types, keys and the option universe                                     *)
(***************************************************************************)
\* reflect.Type values: three concrete types and one interface type.
Types == {"A", "B", "C", "I"}
Names == {"", "n"}

\* key{typ, name}
Keys == [typ : Types, name : Names]
key(t, n) == [typ |-> t, name |-> n]

\* Provide(provider, options...): a *providerOptions with the signature of
\* the constructor it carries.  kind "nil" is Provide(nil).
Prov(res, nm, ins, impl, nout, eout) ==
    [opt |-> "provide", kind |-> "func", result |-> res, name |-> nm,
     ins |-> ins, implements |-> impl, numOut |-> nout, errOut |-> eout,
     fails |-> FALSE]
NilProvider ==
    [opt |-> "provide", kind |-> "nil", result |-> "A", name |-> "",
     ins |-> <<>>, implements |-> <<>>, numOut |-> 0, errOut |-> FALSE,
     fails |-> FALSE]

\* Apply(modifier): a *modifierOptions.  kind is "nil", "value" (not a
\* function) or "func"; fails says whether the modifier returns a non-nil
\* error when it declares one.
Mod(kind, ins, nout, eout, fails) ==
    [opt |-> "apply", kind |-> kind, result |-> "A", name |-> "",
     ins |-> ins, implements |-> <<>>, numOut |-> nout, errOut |-> eout,
     fails |-> fails]

ProviderOptions ==
    { NilProvider,
      Prov("A", "", <<>>, <<>>, 2, FALSE),          \* func() (A, B): bad
      Prov("A", "", <<>>, <<>>, 1, FALSE),
      Prov("A", "n", <<>>, <<>>, 1, FALSE),
      Prov("A", "", <<"A">>, <<>>, 1, FALSE),
      Prov("A", "", <<"B">>, <<>>, 1, FALSE),
      Prov("A", "", <<"I">>, <<>>, 1, FALSE),
      Prov("A", "", <<"B", "C">>, <<>>, 1, FALSE),
      Prov("B", "", <<>>, <<"I">>, 1, FALSE),
      Prov("B", "", <<"C">>, <<"I">>, 1, FALSE),
      Prov("B", "", <<"I">>, <<"I">>, 1, FALSE),
      Prov("C", "", <<>>, <<"I">>, 2, TRUE),
      Prov("C", "", <<"A">>, <<>>, 2, TRUE),
      Prov("I", "", <<>>, <<>>, 1, FALSE) }

ModifierOptions ==
    { Mod("nil", <<>>, 0, FALSE, FALSE),
      Mod("value", <<>>, 0, FALSE, FALSE),
      Mod("func", <<"A">>, 2, FALSE, FALSE),        \* two outputs: bad
      Mod("func", <<"B">>, 1, FALSE, FALSE),        \* one non-error: bad
      Mod("func", <<"A">>, 0, FALSE, FALSE),
      Mod("func", <<"I">>, 1, TRUE, FALSE),
      Mod("func", <<"B", "C">>, 1, TRUE, TRUE) }

Options == ProviderOptions \cup ModifierOptions

OptionLists == UNION { [1..n -> Options] : n \in 0..MaxOptions }

\* Constructors of every output arity, with and without an error as second
\* output, and one modifier.
SignatureOptions ==
    { Prov(res, "", <<>>, <<>>, n, e) :
         res \in {"A", "B"}, n \in 0..MaxOutputs, e \in BOOLEAN }
    \cup { Mod("func", <<"A">>, 0, FALSE, FALSE) }

SignatureLists == UNION { [1..n -> SignatureOptions] : n \in 0..MaxWrapped }

\* The constructors of the container shared by concurrent callers.
ConcurrentOptions ==
    { Prov("A", "", <<>>, <<>>, 1, FALSE),
      Prov("A", "", <<"A">>, <<>>, 1, FALSE),
      Prov("A", "", <<"B">>, <<>>, 1, FALSE),
      Prov("B", "", <<>>, <<"I">>, 1, FALSE) }

ConcurrentLists == UNION { [1..n -> ConcurrentOptions] : n \in 0..MaxProvided }

isProvide(o) == o.opt = "provide"
isApply(o) == o.opt = "apply"

(***************************************************************************)
(* State                                                                   *)
(***************************************************************************)
VARIABLES
    providers,      \* c.providers
    modifiers,      \* c.modifiers
    pc,             \* position in New/compile, or "ready"/"failed"/"panicked"
    stage,          \* the compile stage that ran last ("none" before any)
    mi,             \* index of the next modifier compile applies
    err,            \* the error New returns ("none" while there is none)
    storage,        \* c.storage: keys, definitions, implementations
    defs,           \* the *definition objects, by pointer
    ctorCalls,      \* per definition, how often its constructor was invoked
    modCalls,       \* per modifier, how often it was called
    last,           \* the latest Populate/apply: target, error, value, the
                    \* constructor calls it made, the one that failed, and
                    \* the values handed to the modifier
    callers,        \* per goroutine, its Populate call: target, call stack
                    \* of definition.init, error and value delivered
    mutex,          \* the definitions whose instantiation is locked
    serialized      \* whether instantiation is guarded per definition

vars == <<providers, modifiers, pc, stage, mi, err, storage, defs, ctorCalls,
          modCalls, last, callers, mutex, serialized>>

\* The state of the concurrent callers, which a single caller leaves alone.
concVars == <<callers, mutex, serialized>>

\* The zero reflect.Value: d.instance before construction.
NoInstance == [def |-> 0, n |-> 0]
NoTarget == [kind |-> "none", typ |-> "A"]
NoLast == [op |-> "none", target |-> NoTarget, err |-> "none",
           value |-> NoInstance, calls |-> <<>>, failed |-> 0,
           values |-> <<>>]
\* A goroutine that has not called Populate yet.
IdleCaller == [state |-> "idle", target |-> NoTarget, stack |-> <<>>,
               err |-> "none", value |-> NoInstance]

(***************************************************************************)
(* Provider wrapper and definition                                         *)
(***************************************************************************)
\* newFuncProvider that checks only the lower bound of the output arity.
newFuncProvider_noUpperBound(po) ==
    IF po.numOut <= 0
    THEN [err |-> "incorrect provider type"]
    ELSE IF po.numOut = 2 /\ po.errOut = FALSE
    THEN [err |-> "incorrect provider type"]
    ELSE [err |-> "none", resultType |-> po.result]

\* newFuncProvider: the signature check of a function provider.
newFuncProvider(po) ==
    IF po.numOut <= 0 \/ po.numOut > 2
    THEN [err |-> "incorrect provider type"]
    ELSE IF po.numOut = 2 /\ po.errOut = FALSE
    THEN [err |-> "incorrect provider type"]
    ELSE [err |-> "none", resultType |-> po.result]

\* providerWrapper.args: one unnamed key per declared input, in order.
args(po) == [i \in 1..Len(po.ins) |-> key(po.ins[i], "")]

\* createDefinition: wrap the provider and build its definition.
createDefinition(po) ==
    LET w == newFuncProvider(po) IN
    IF w.err # "none"
    THEN [err |-> "provide failed"]
    ELSE [err |-> "none",
          def |-> [key |-> key(w.resultType, po.name),
                   implements |-> [i \in 1..Len(po.implements) |->
                                      key(po.implements[i], "")],
                   provider |-> [arguments |-> args(po),
                                 hasErr |-> po.numOut = 2],
                   in |-> <<>>, out |-> <<>>,
                   visited |-> visitMarkUnmarked,
                   instance |-> NoInstance]]

(***************************************************************************)
(* Definition storage                                                      *)
(***************************************************************************)
EmptyStorage ==
    [keys |-> <<>>,
     definitions |-> [k \in Keys |-> 0],
     implementations |-> [k \in Keys |-> <<>>]]

RECURSIVE addImplementations(_, _, _, _)
addImplementations(impls, ks, i, ptr) ==
    IF i > Len(ks) THEN impls
    ELSE addImplementations([impls EXCEPT ![ks[i]] = Append(@, ptr)],
                            ks, i + 1, ptr)

\* add without its "already provided" check: a later binding replaces the
\* earlier one.
add_overwrite(s, ptr, def) ==
    [err |-> "none",
     s |-> [keys |-> Append(s.keys, def.key),
            definitions |-> [s.definitions EXCEPT ![def.key] = ptr],
            implementations |->
                addImplementations(s.implementations, def.implements,
                                   1, ptr)]]

\* definitions.add; ptr is the pointer of def.
add(s, ptr, def) ==
    IF s.definitions[def.key] # 0
    THEN [err |-> "already provided", s |-> s]
    ELSE [err |-> "none",
          s |-> [keys |-> Append(s.keys, def.key),
                 definitions |-> [s.definitions EXCEPT ![def.key] = ptr],
                 implementations |->
                     addImplementations(s.implementations, def.implements,
                                        1, ptr)]]

\* get that answers a capability with its latest claimant.
get_lastClaimant(s, k) ==
    IF s.definitions[k] # 0
    THEN [err |-> "none", def |-> s.definitions[k]]
    ELSE IF Len(s.implementations[k]) > 0
    THEN [err |-> "none",
          def |-> s.implementations[k][Len(s.implementations[k])]]
    ELSE [err |-> "not provided", def |-> 0]

\* get without the capability table: exact bindings only.
get_exactOnly(s, k) ==
    IF s.definitions[k] # 0
    THEN [err |-> "none", def |-> s.definitions[k]]
    ELSE [err |-> "not provided", def |-> 0]

\* get that consults the capability table before the exact bindings.
get_capabilityFirst(s, k) ==
    IF Len(s.implementations[k]) > 0
    THEN [err |-> "none", def |-> s.implementations[k][1]]
    ELSE IF s.definitions[k] # 0
    THEN [err |-> "none", def |-> s.definitions[k]]
    ELSE [err |-> "not provided", def |-> 0]

\* definitions.get
get(s, k) ==
    IF s.definitions[k] # 0
    THEN [err |-> "none", def |-> s.definitions[k]]
    ELSE IF Len(s.implementations[k]) > 0
    THEN [err |-> "none", def |-> s.implementations[k][1]]
    ELSE [err |-> "not provided", def |-> 0]

\* definitions.all
all(s) == [i \in 1..Len(s.keys) |-> s.definitions[s.keys[i]]]

(***************************************************************************)
(* compile: register providers                                             *)
(***************************************************************************)
\* "register providers" that passes over a nil provider instead of
\* returning its error.
RECURSIVE registerProviders_skipNil(_, _, _, _)
registerProviders_skipNil(ps, i, s, heap) ==
    IF i > Len(ps) THEN [err |-> "none", s |-> s, defs |-> heap]
    ELSE IF ps[i].kind = "nil"
    THEN registerProviders_skipNil(ps, i + 1, s, heap)
    ELSE LET cd == createDefinition(ps[i]) IN
         IF cd.err # "none"
         THEN [err |-> cd.err, s |-> s, defs |-> heap]
         ELSE LET ptr == Len(heap) + 1
                  a == add(s, ptr, cd.def)
              IN IF a.err # "none"
                 THEN [err |-> a.err, s |-> s, defs |-> heap]
                 ELSE registerProviders_skipNil(ps, i + 1, a.s,
                                                Append(heap, cd.def))

RECURSIVE registerProviders(_, _, _, _)
registerProviders(ps, i, s, heap) ==
    IF i > Len(ps) THEN [err |-> "none", s |-> s, defs |-> heap]
    ELSE IF ps[i].kind = "nil"
    THEN [err |-> "could not provide nil", s |-> s, defs |-> heap]
    ELSE LET cd == createDefinition(ps[i]) IN
         IF cd.err # "none"
         THEN [err |-> cd.err, s |-> s, defs |-> heap]
         ELSE LET ptr == Len(heap) + 1
                  a == add(s, ptr, cd.def)
              IN IF a.err # "none"
                 THEN [err |-> a.err, s |-> s, defs |-> heap]
                 ELSE registerProviders(ps, i + 1, a.s, Append(heap, cd.def))

\* New before compile: the options applied, an empty storage.
InitOver(lists) ==
    /\ \E os \in lists :
          /\ providers = SelectSeq(os, isProvide)
          /\ modifiers = SelectSeq(os, isApply)
    /\ pc = "register"
    /\ stage = "none"
    /\ mi = 1
    /\ err = "none"
    /\ storage = EmptyStorage
    /\ defs = <<>>
    /\ ctorCalls = <<>>
    /\ modCalls = [i \in 1..Len(modifiers) |-> 0]
    /\ last = NoLast
    /\ callers = [c \in 1..MaxCallers |-> IdleCaller]
    /\ mutex = {}

Init == InitOver(OptionLists) /\ serialized = FALSE

Register ==
    /\ UNCHANGED concVars
    /\ pc = "register"
    /\ LET r == registerProviders(providers, 1, storage, defs) IN
       /\ storage' = r.s
       /\ defs' = r.defs
       /\ ctorCalls' = [i \in 1..Len(r.defs) |-> 0]
       /\ err' = r.err
       /\ pc' = IF r.err = "none" THEN "wire" ELSE "failed"
    /\ stage' = "register"
    /\ UNCHANGED <<providers, modifiers, mi, modCalls, last>>

(***************************************************************************)
(* compile: connect definitions                                            *)
(***************************************************************************)
\* The two nested loops of "connect definitions": definition ds[di],
\* argument ai.  A failed get returns at once and keeps the edges made.
\* "connect definitions" that puts each resolved argument at the front of
\* the incoming list.
RECURSIVE connectDefinitions_prepend(_, _, _, _, _)
connectDefinitions_prepend(s, ds, di, ai, heap) ==
    IF di > Len(ds) THEN [err |-> "none", defs |-> heap]
    ELSE LET d == ds[di]
             arguments == heap[d].provider.arguments
         IN IF ai > Len(arguments)
            THEN connectDefinitions_prepend(s, ds, di + 1, 1, heap)
            ELSE LET g == get(s, arguments[ai]) IN
                 IF g.err # "none"
                 THEN [err |-> g.err, defs |-> heap]
                 ELSE LET h1 == [heap EXCEPT ![d].in = <<g.def>> \o @]
                          h2 == [h1 EXCEPT ![g.def].out = Append(@, d)]
                      IN connectDefinitions_prepend(s, ds, di, ai + 1, h2)

\* "connect definitions" that records the incoming edge only.
RECURSIVE connectDefinitions_noOut(_, _, _, _, _)
connectDefinitions_noOut(s, ds, di, ai, heap) ==
    IF di > Len(ds) THEN [err |-> "none", defs |-> heap]
    ELSE LET d == ds[di]
             arguments == heap[d].provider.arguments
         IN IF ai > Len(arguments)
            THEN connectDefinitions_noOut(s, ds, di + 1, 1, heap)
            ELSE LET g == get(s, arguments[ai]) IN
                 IF g.err # "none"
                 THEN [err |-> g.err, defs |-> heap]
                 ELSE LET h1 == [heap EXCEPT ![d].in = Append(@, g.def)]
                      IN connectDefinitions_noOut(s, ds, di, ai + 1, h1)

RECURSIVE connectDefinitions(_, _, _, _, _)
connectDefinitions(s, ds, di, ai, heap) ==
    IF di > Len(ds) THEN [err |-> "none", defs |-> heap]
    ELSE LET d == ds[di]
             arguments == heap[d].provider.arguments
         IN IF ai > Len(arguments)
            THEN connectDefinitions(s, ds, di + 1, 1, heap)
            ELSE LET g == get(s, arguments[ai]) IN
                 IF g.err # "none"
                 THEN [err |-> g.err, defs |-> heap]
                 ELSE LET h1 == [heap EXCEPT ![d].in = Append(@, g.def)]
                          h2 == [h1 EXCEPT ![g.def].out = Append(@, d)]
                      IN connectDefinitions(s, ds, di, ai + 1, h2)

Wire ==
    /\ UNCHANGED concVars
    /\ pc = "wire"
    /\ LET r == connectDefinitions(storage, all(storage), 1, 1, defs) IN
       /\ defs' = r.defs
       /\ err' = r.err
       /\ pc' = IF r.err = "none" THEN "verify" ELSE "failed"
    /\ stage' = "wire"
    /\ UNCHANGED <<providers, modifiers, mi, storage, ctorCalls, modCalls,
                   last>>

(***************************************************************************)
(* compile: verify cycles                                                  *)
(***************************************************************************)
\* definition.visit: depth-first traversal of the out edges with the three
\* marks; a definition met while it is in progress is a cycle.
RECURSIVE visit(_, _)
RECURSIVE visitOut(_, _, _)
visit(d, heap) ==
    IF heap[d].visited = visitMarkPermanent
    THEN [err |-> "none", defs |-> heap]
    ELSE IF heap[d].visited = visitMarkTemporary
    THEN [err |-> "cycle", defs |-> heap]
    ELSE LET r == visitOut(d, 1, [heap EXCEPT ![d].visited = visitMarkTemporary])
         IN IF r.err # "none" THEN r
            ELSE [err |-> "none",
                  defs |-> [r.defs EXCEPT ![d].visited = visitMarkPermanent]]

visitOut(d, i, heap) ==
    IF i > Len(heap[d].out) THEN [err |-> "none", defs |-> heap]
    ELSE LET r == visit(heap[d].out[i], heap) IN
         IF r.err # "none" THEN r ELSE visitOut(d, i + 1, r.defs)

\* "verify cycles" that starts a traversal at the first definition only.
verifyCycles_firstOnly(ds, i, heap) ==
    IF i > Len(ds) \/ i > 1 THEN [err |-> "none", defs |-> heap]
    ELSE LET r == visit(ds[i], heap) IN
         IF r.err # "none"
         THEN [err |-> "detect cycle", defs |-> r.defs]
         ELSE [err |-> "none", defs |-> r.defs]

\* "verify cycles" that visits nothing.
verifyCycles_noVisit(ds, i, heap) == [err |-> "none", defs |-> heap]

\* The loop of "verify cycles" over storage.all().
RECURSIVE verifyCycles(_, _, _)
verifyCycles(ds, i, heap) ==
    IF i > Len(ds) THEN [err |-> "none", defs |-> heap]
    ELSE IF heap[ds[i]].visited = visitMarkUnmarked
    THEN LET r == visit(ds[i], heap) IN
         IF r.err # "none"
         THEN [err |-> "detect cycle", defs |-> r.defs]
         ELSE verifyCycles(ds, i + 1, r.defs)
    ELSE verifyCycles(ds, i + 1, heap)

Verify ==
    /\ UNCHANGED concVars
    /\ pc = "verify"
    /\ LET r == verifyCycles(all(storage), 1, defs) IN
       /\ defs' = r.defs
       /\ err' = r.err
       /\ pc' = IF r.err # "none" THEN "failed"
                ELSE IF Len(modifiers) = 0 THEN "ready" ELSE "modify"
    /\ stage' = "verify"
    /\ UNCHANGED <<providers, modifiers, mi, storage, ctorCalls, modCalls,
                   last>>

(***************************************************************************)
(* Lazy instantiation                                                      *)
(***************************************************************************)
\* The definitions whose constructor declares a failure output.
ErrDefs(heap) == { d \in 1..Len(heap) : heap[d].provider.hasErr }

\* definition.init: the memoized instance if there is one; otherwise the
\* incoming definitions are initialised in order, the constructor is
\* invoked with their instances, and its value is memoized unless it
\* returned a failure.  st is [defs, ctorCalls, calls, failed]: the heap,
\* the call counts, the constructor calls made so far and the definition
\* whose constructor returned a failure (0: none); failing is the set
\* of constructors that return a failure during this resolution; fuel is
\* the call-stack depth left ("overflow" is a recursion that never ends).
RECURSIVE init(_, _, _, _)
RECURSIVE initIn(_, _, _, _, _, _)
init(d, st, failing, fuel) ==
    IF st.defs[d].instance # NoInstance
    THEN [err |-> "none", st |-> st, value |-> st.defs[d].instance]
    ELSE IF fuel = 0
    THEN [err |-> "overflow", st |-> st, value |-> NoInstance]
    ELSE LET r == initIn(d, 1, st, failing, fuel - 1, <<>>) IN
         IF r.err # "none"
         THEN [err |-> r.err, st |-> r.st, value |-> NoInstance]
         ELSE LET n == r.st.ctorCalls[d] + 1
                  called == [r.st EXCEPT
                                !.ctorCalls[d] = n,
                                !.calls = Append(@, [def |-> d,
                                                     values |-> r.values])]
                  made == [def |-> d, n |-> n]
              IN IF st.defs[d].provider.hasErr /\ d \in failing
                 THEN [err |-> "ctor error",
                       st |-> [called EXCEPT !.failed = d],
                       value |-> NoInstance]
                 ELSE [err |-> "none",
                       st |-> [called EXCEPT !.defs[d].instance = made],
                       value |-> made]

initIn(d, i, st, failing, fuel, values) ==
    IF i > Len(st.defs[d].in)
    THEN [err |-> "none", st |-> st, values |-> values]
    ELSE LET r == init(st.defs[d].in[i], st, failing, fuel) IN
         IF r.err # "none"
         THEN [err |-> r.err, st |-> r.st, values |-> values]
         ELSE initIn(d, i + 1, r.st, failing, fuel, Append(values, r.value))

(***************************************************************************)
(* compile: apply modifiers                                                *)
(***************************************************************************)
\* The argument loop of Container.apply.
RECURSIVE applyArgs(_, _, _, _, _, _)
applyArgs(mo, i, s, st, failing, values) ==
    IF i > Len(mo.ins)
    THEN [err |-> "none", st |-> st, values |-> values]
    ELSE LET g == get(s, key(mo.ins[i], "")) IN
         IF g.err # "none"
         THEN [err |-> g.err, st |-> st, values |-> values]
         ELSE LET r == init(g.def, st, failing, Len(st.defs)) IN
              IF r.err # "none"
              THEN [err |-> r.err, st |-> r.st, values |-> values]
              ELSE applyArgs(mo, i + 1, s, r.st, failing,
                             Append(values, r.value))

\* apply that looks at the modifier's outputs only after it has resolved
\* and instantiated the arguments.
apply_lateCheck(mo, s, st, failing) ==
    IF mo.kind = "nil"
    THEN [err |-> "nil modifier", st |-> st, called |-> FALSE,
          values |-> <<>>]
    ELSE IF mo.kind # "func"
    THEN [err |-> "incorrect modifier signature", st |-> st,
          called |-> FALSE, values |-> <<>>]
    ELSE LET a == applyArgs(mo, 1, s, st, failing, <<>>) IN
         IF a.err # "none"
         THEN [err |-> a.err, st |-> a.st, called |-> FALSE,
               values |-> <<>>]
         ELSE IF mo.numOut > 1 \/ (mo.numOut = 1 /\ ~mo.errOut)
         THEN [err |-> "incorrect modifier signature", st |-> a.st,
               called |-> FALSE, values |-> <<>>]
         ELSE IF mo.numOut = 1
         THEN IF mo.fails
              THEN [err |-> "apply error", st |-> a.st, called |-> TRUE,
                    values |-> a.values]
              ELSE [err |-> "panic", st |-> a.st, called |-> TRUE,
                    values |-> a.values]
         ELSE [err |-> "none", st |-> a.st, called |-> TRUE,
               values |-> a.values]

\* Container.apply: called says whether the modifier itself was called.
\* A declared error output that comes back nil makes the type assertion
\* result[0].Interface().(error) panic.
apply(mo, s, st, failing) ==
    IF mo.kind = "nil"
    THEN [err |-> "nil modifier", st |-> st, called |-> FALSE,
          values |-> <<>>]
    ELSE IF mo.kind # "func"
    THEN [err |-> "incorrect modifier signature", st |-> st,
          called |-> FALSE, values |-> <<>>]
    ELSE IF mo.numOut > 1
    THEN [err |-> "incorrect modifier signature", st |-> st,
          called |-> FALSE, values |-> <<>>]
    ELSE IF mo.numOut = 1 /\ ~mo.errOut
    THEN [err |-> "incorrect modifier signature", st |-> st,
          called |-> FALSE, values |-> <<>>]
    ELSE LET a == applyArgs(mo, 1, s, st, failing, <<>>) IN
         IF a.err # "none"
         THEN [err |-> a.err, st |-> a.st, called |-> FALSE,
               values |-> <<>>]
         ELSE IF mo.numOut = 1
         THEN IF mo.fails
              THEN [err |-> "apply error", st |-> a.st, called |-> TRUE,
                    values |-> a.values]
              ELSE [err |-> "panic", st |-> a.st, called |-> TRUE,
                    values |-> a.values]
         ELSE [err |-> "none", st |-> a.st, called |-> TRUE,
               values |-> a.values]

\* One turn of the "apply modifiers" loop of compile, and New's return
\* after the last one.
Apply ==
    /\ UNCHANGED concVars
    /\ pc = "modify"
    /\ \E failing \in SUBSET ErrDefs(defs) :
         LET st == [defs |-> defs, ctorCalls |-> ctorCalls, calls |-> <<>>,
                    failed |-> 0]
             r == apply(modifiers[mi], storage, st, failing)
         IN /\ defs' = r.st.defs
            /\ ctorCalls' = r.st.ctorCalls
            /\ modCalls' = IF r.called
                           THEN [modCalls EXCEPT ![mi] = @ + 1]
                           ELSE modCalls
            /\ last' = [op |-> "apply", target |-> NoTarget, err |-> r.err,
                        value |-> NoInstance, calls |-> r.st.calls,
                        failed |-> r.st.failed, values |-> r.values]
            /\ err' = IF r.err = "panic" THEN "none" ELSE r.err
            /\ mi' = IF r.err = "none" THEN mi + 1 ELSE mi
            /\ pc' = IF r.err = "panic" THEN "panicked"
                     ELSE IF r.err # "none" THEN "failed"
                     ELSE IF mi + 1 > Len(modifiers) THEN "ready"
                     ELSE "modify"
    /\ stage' = "modify"
    /\ UNCHANGED <<providers, modifiers, storage>>

(***************************************************************************)
(* Populate                                                                *)
(***************************************************************************)
\* What a caller can hand to Populate: nil, a nil pointer, a value that is
\* no pointer, or a pointer to a variable of some type.
Targets ==
    { [kind |-> "nil", typ |-> "A"],
      [kind |-> "nilptr", typ |-> "A"],
      [kind |-> "value", typ |-> "A"] }
    \cup [kind : {"ptr"}, typ : Types]

\* Populate that drops the error of def.init().
populate_ignoreErr(target, s, st, failing) ==
    IF target.kind = "nil" \/ target.kind = "nilptr"
    THEN [err |-> "could not populate nil", st |-> st, value |-> NoInstance]
    ELSE IF target.kind # "ptr"
    THEN [err |-> "panic", st |-> st, value |-> NoInstance]
    ELSE LET g == get(s, key(target.typ, "")) IN
         IF g.err # "none"
         THEN [err |-> g.err, st |-> st, value |-> NoInstance]
         ELSE LET r == init(g.def, st, failing, Len(st.defs)) IN
              [err |-> "none", st |-> r.st, value |-> r.value]

\* Populate without rvalue.Set(instance): the target keeps its zero value.
populate_noSet(target, s, st, failing) ==
    IF target.kind = "nil" \/ target.kind = "nilptr"
    THEN [err |-> "could not populate nil", st |-> st, value |-> NoInstance]
    ELSE IF target.kind # "ptr"
    THEN [err |-> "panic", st |-> st, value |-> NoInstance]
    ELSE LET g == get(s, key(target.typ, "")) IN
         IF g.err # "none"
         THEN [err |-> g.err, st |-> st, value |-> NoInstance]
         ELSE LET r == init(g.def, st, failing, Len(st.defs)) IN
              [err |-> r.err, st |-> r.st, value |-> NoInstance]

\* Populate that first instantiates the definition registered first,
\* whatever the target.
populate_eagerFirst(target, s, st, failing) ==
    IF target.kind = "nil" \/ target.kind = "nilptr"
    THEN [err |-> "could not populate nil", st |-> st, value |-> NoInstance]
    ELSE IF target.kind # "ptr"
    THEN [err |-> "panic", st |-> st, value |-> NoInstance]
    ELSE LET g == get(s, key(target.typ, "")) IN
         IF g.err # "none"
         THEN [err |-> g.err, st |-> st, value |-> NoInstance]
         ELSE LET r0 == init(1, st, failing, Len(st.defs))
                  r == init(g.def, r0.st, failing, Len(st.defs))
              IN IF r.err # "none"
                 THEN [err |-> r.err, st |-> r.st, value |-> NoInstance]
                 ELSE [err |-> "none", st |-> r.st, value |-> r.value]

\* Container.Populate: value is what the target's variable is set to.
\* reflect's Elem panics on a value that is neither pointer nor interface.
populate(target, s, st, failing) ==
    IF target.kind = "nil" \/ target.kind = "nilptr"
    THEN [err |-> "could not populate nil", st |-> st, value |-> NoInstance]
    ELSE IF target.kind # "ptr"
    THEN [err |-> "panic", st |-> st, value |-> NoInstance]
    ELSE LET g == get(s, key(target.typ, "")) IN
         IF g.err # "none"
         THEN [err |-> g.err, st |-> st, value |-> NoInstance]
         ELSE LET r == init(g.def, st, failing, Len(st.defs)) IN
              IF r.err # "none"
              THEN [err |-> r.err, st |-> r.st, value |-> NoInstance]
              ELSE [err |-> "none", st |-> r.st, value |-> r.value]

Populate ==
    /\ UNCHANGED concVars
    /\ pc = "ready"
    /\ \A d \in 1..Len(defs) : ctorCalls[d] < MaxCalls
    /\ \E target \in Targets, failing \in SUBSET ErrDefs(defs) :
         LET st == [defs |-> defs, ctorCalls |-> ctorCalls, calls |-> <<>>,
                    failed |-> 0]
             r == populate(target, storage, st, failing)
         IN /\ defs' = r.st.defs
            /\ ctorCalls' = r.st.ctorCalls
            /\ last' = [op |-> "populate", target |-> target, err |-> r.err,
                        value |-> r.value, calls |-> r.st.calls,
                        failed |-> r.st.failed, values |-> <<>>]
    /\ UNCHANGED <<providers, modifiers, pc, stage, mi, err, storage,
                   modCalls>>

Next == Register \/ Wire \/ Verify \/ Apply \/ Populate

Spec == Init /\ [][Next]_vars

\* New over constructors of every signature.
InitSignatures == InitOver(SignatureLists) /\ serialized = FALSE
SpecSignatures == InitSignatures /\ [][Next]_vars

(***************************************************************************)
(* Concurrent callers of Populate                                          *)
(***************************************************************************)
\* A frame of definition.init on a caller's stack: the definition, the
\* next incoming edge to resolve, the values resolved so far, where the
\* frame stands (before the instance check, resolving arguments, or
\* holding a constructed value not stored yet) and that value.
Frame(d) == [def |-> d, i |-> 1, values |-> <<>>, phase |-> "check",
             made |-> NoInstance]

\* definition.init returns value v from the top frame of caller c: to the
\* frame below, which goes on with its next argument, or to Populate,
\* which sets the target and returns.
Return(c, v) ==
    LET k == callers[c]
        n == Len(k.stack)
    IN IF n = 1
       THEN [k EXCEPT !.state = "done", !.stack = <<>>, !.value = v]
       ELSE [k EXCEPT !.stack =
                [j \in 1..(n - 1) |->
                    IF j = n - 1
                    THEN [k.stack[j] EXCEPT !.values = Append(@, v),
                                            !.i = @ + 1]
                    ELSE k.stack[j]]]

\* Whether a caller may enter the instantiation of definition d.
mayEnter(d) == ~serialized \/ d \notin mutex

\* Populate up to the call of def.init(): the nil check, Elem, get.
CallerStart ==
    /\ pc = "ready"
    /\ \E c \in 1..MaxCallers, target \in Targets :
          /\ callers[c].state = "idle"
          /\ callers' = [callers EXCEPT ![c] =
                IF target.kind = "nil" \/ target.kind = "nilptr"
                THEN [@ EXCEPT !.state = "done", !.target = target,
                               !.err = "could not populate nil"]
                ELSE IF target.kind # "ptr"
                THEN [@ EXCEPT !.state = "done", !.target = target,
                               !.err = "panic"]
                ELSE LET g == get(storage, key(target.typ, "")) IN
                     IF g.err # "none"
                     THEN [@ EXCEPT !.state = "done", !.target = target,
                                    !.err = g.err]
                     ELSE [@ EXCEPT !.state = "running", !.target = target,
                                    !.stack = <<Frame(g.def)>>]]
    /\ UNCHANGED <<providers, modifiers, pc, stage, mi, err, storage, defs,
                   ctorCalls, modCalls, last, mutex, serialized>>

\* definition.init reads the memoized instance: it returns it if there is
\* one, and otherwise goes on to resolve the arguments.
CallerCheck ==
    /\ \E c \in 1..MaxCallers :
          /\ callers[c].state = "running"
          /\ LET n == Len(callers[c].stack)
                 top == callers[c].stack[n]
             IN /\ top.phase = "check"
                /\ mayEnter(top.def)
                /\ IF defs[top.def].instance # NoInstance
                   THEN /\ callers' = [callers EXCEPT ![c] =
                                Return(c, defs[top.def].instance)]
                        /\ mutex' = mutex
                   ELSE /\ callers' = [callers EXCEPT
                                ![c].stack[n].phase = "args"]
                        /\ mutex' = IF serialized
                                    THEN mutex \cup {top.def} ELSE mutex
    /\ UNCHANGED <<providers, modifiers, pc, stage, mi, err, storage, defs,
                   ctorCalls, modCalls, last, serialized>>

\* definition.init calls init of its next incoming definition.
CallerDescend ==
    /\ \E c \in 1..MaxCallers :
          /\ callers[c].state = "running"
          /\ LET n == Len(callers[c].stack)
                 top == callers[c].stack[n]
             IN /\ top.phase = "args"
                /\ top.i <= Len(defs[top.def].in)
                /\ callers' = [callers EXCEPT ![c].stack =
                        Append(@, Frame(defs[top.def].in[top.i]))]
    /\ UNCHANGED <<providers, modifiers, pc, stage, mi, err, storage, defs,
                   ctorCalls, modCalls, last, mutex, serialized>>

\* definition.init invokes the constructor with the resolved values.
CallerConstruct ==
    /\ \E c \in 1..MaxCallers :
          /\ callers[c].state = "running"
          /\ LET n == Len(callers[c].stack)
                 top == callers[c].stack[n]
             IN /\ top.phase = "args"
                /\ top.i > Len(defs[top.def].in)
                /\ ctorCalls' = [ctorCalls EXCEPT ![top.def] = @ + 1]
                /\ callers' = [callers EXCEPT
                        ![c].stack[n].phase = "store",
                        ![c].stack[n].made =
                            [def |-> top.def, n |-> ctorCalls[top.def] + 1]]
    /\ UNCHANGED <<providers, modifiers, pc, stage, mi, err, storage, defs,
                   modCalls, last, mutex, serialized>>

\* definition.init memoizes the constructed value and returns it.
CallerStore ==
    /\ \E c \in 1..MaxCallers :
          /\ callers[c].state = "running"
          /\ LET n == Len(callers[c].stack)
                 top == callers[c].stack[n]
             IN /\ top.phase = "store"
                /\ defs' = [defs EXCEPT ![top.def].instance = top.made]
                /\ callers' = [callers EXCEPT ![c] = Return(c, top.made)]
                /\ mutex' = mutex \ {top.def}
    /\ UNCHANGED <<providers, modifiers, pc, stage, mi, err, storage,
                   ctorCalls, modCalls, last, serialized>>

\* New, then Populate called from MaxCallers goroutines at once, on the
\* reference design and on one that serializes instantiation.
InitConcurrent == InitOver(ConcurrentLists) /\ serialized \in BOOLEAN
NextConcurrent ==
    \/ Register \/ Wire \/ Verify
    \/ CallerStart \/ CallerCheck \/ CallerDescend \/ CallerConstruct
    \/ CallerStore
SpecConcurrent == InitConcurrent /\ [][NextConcurrent]_vars

(***************************************************************************)
(* Properties                                                              *)
(***************************************************************************)
Min(S) == CHOOSE x \in S : \A y \in S : x <= y

\* The definition an unnamed identifier of type t resolves to.
Resolved(t) == get(storage, key(t, "")).def

\* The modifier the latest apply was about.
LastMod == modifiers[IF last.err = "none" THEN mi - 1 ELSE mi]

\* A registration that compile accepts on its own: a function with one
\* output, or two of which the second is an error.
Accepted(po) ==
    po.kind = "func" /\ po.numOut \in {1, 2} /\ (po.numOut = 2 => po.errOut)
Ident(po) == key(po.result, po.name)

(* ------------------------------- C1 ----------------------------------- *)
\* What every state shows of memoization: a successful Populate delivered
\* the memoized instance of the definition its target resolves to, every
\* constructor and every modifier was handed the memoized instances of its
\* arguments, and a definition that holds an instance holds the value of
\* the latest invocation of its constructor.
MemoizedDelivery ==
    /\ \A d \in 1..Len(defs) :
          defs[d].instance # NoInstance
             => defs[d].instance = [def |-> d, n |-> ctorCalls[d]]
    /\ (last.op = "populate" /\ last.err = "none")
          => /\ last.value # NoInstance
             /\ last.value = defs[Resolved(last.target.typ)].instance
    /\ \A j \in 1..Len(last.calls) :
          LET c == last.calls[j] IN
          /\ Len(c.values) = Len(defs[c.def].in)
          /\ \A i \in 1..Len(c.values) :
                /\ c.values[i] # NoInstance
                /\ c.values[i] = defs[defs[c.def].in[i]].instance
    /\ (last.op = "apply" /\ last.err \in {"none", "apply error", "panic"})
          => /\ Len(last.values) = Len(LastMod.ins)
             /\ \A i \in 1..Len(last.values) :
                   /\ last.values[i] # NoInstance
                   /\ last.values[i] = defs[Resolved(LastMod.ins[i])].instance

\* C1 (as amended): once a definition has been constructed successfully,
\* no later step changes its instance or invokes its constructor again, and
\* every resolution (Populate by exact identifier or by capability, argument
\* of a definition, argument of a modifier) delivers that same instance; so
\* each constructor succeeds at most once.
C1_Memoization ==
    [][ /\ \A d \in 1..Len(defs) :
              defs[d].instance # NoInstance
                 => /\ defs'[d].instance = defs[d].instance
                    /\ ctorCalls'[d] = ctorCalls[d]
        /\ MemoizedDelivery' ]_vars

\* C1 witness: a Populate of the capability I answered from the memo alone,
\* by a definition whose constructor ran once.
C1_Witness ==
    /\ pc = "ready" /\ last.op = "populate" /\ last.err = "none"
    /\ last.target.typ = "I" /\ last.calls = <<>>
    /\ defs[last.value.def].key.typ # "I"
    /\ ctorCalls[last.value.def] = 1

\* C1 as stated: over any sequence of Populate calls the constructor of
\* each definition runs at most once.
C1_AtMostOnce == \A d \in 1..Len(ctorCalls) : ctorCalls[d] <= 1

(* ------------------------------- C2 ----------------------------------- *)
\* Registration j repeats the identifier of an earlier registration.
Repeats(ps, j) ==
    /\ Accepted(ps[j])
    /\ \E i \in 1..(j - 1) : Accepted(ps[i]) /\ Ident(ps[i]) = Ident(ps[j])
HasDuplicate(ps) == \E j \in 1..Len(ps) : Repeats(ps, j)
FirstRepeat(ps) == Min({ j \in 1..Len(ps) : Repeats(ps, j) })

\* C2 (as amended): a provider list in which two registrations have the
\* same exact identifier never compiles; New reports "already provided"
\* when every registration before the first repeated one is accepted, and
\* otherwise the error of the rejected registration (nil provider or
\* incorrect provider signature) that comes before it.
C2_DuplicateFails ==
    (stage # "none" /\ HasDuplicate(providers))
       => /\ pc = "failed" /\ stage = "register"
          /\ IF \A i \in 1..(FirstRepeat(providers) - 1) :
                    Accepted(providers[i])
             THEN err = "already provided"
             ELSE err \in {"could not provide nil", "provide failed"}

\* C2 witness: the first and the third of three registrations share an
\* identifier, the second differs, and New failed with "already provided".
C2_Witness ==
    /\ pc = "failed" /\ err = "already provided"
    /\ Len(providers) = 3
    /\ Ident(providers[1]) = Ident(providers[3])
    /\ Ident(providers[2]) # Ident(providers[1])

\* C2 as stated: whatever surrounds the two registrations, the error is
\* the duplicate-binding error.
C2_AlwaysAlreadyProvided ==
    (stage # "none" /\ HasDuplicate(providers))
       => (pc = "failed" /\ err = "already provided")

(* ------------------------------- C3 ----------------------------------- *)
\* The definitions d depends on, and those reachable along such edges.
DependsOn(d) == { defs[d].in[i] : i \in 1..Len(defs[d].in) }
RECURSIVE ReachableIn(_, _)
ReachableIn(S, n) ==
    IF n = 0 THEN S
    ELSE ReachableIn(S \cup UNION { DependsOn(x) : x \in S }, n - 1)
\* The wired graph has a directed cycle.
HasCycle ==
    \E d \in 1..Len(defs) : d \in ReachableIn(DependsOn(d), Len(defs))

\* C3: once registration and wiring have succeeded, compile fails with
\* the cycle error exactly when the wired graph has a directed cycle (of
\* any length, self-dependencies included), and otherwise passes the check.
C3_CycleIff ==
    (stage \in {"verify", "modify"})
       => /\ HasCycle <=> (stage = "verify" /\ err = "detect cycle")
          /\ err = "detect cycle" => pc = "failed"
          /\ (stage = "verify" /\ ~HasCycle) => (pc # "failed" /\ err = "none")

\* C3 witness: three definitions, each depending on one other, in a ring,
\* and compile failed with the cycle error.
C3_Witness ==
    /\ stage = "verify" /\ pc = "failed" /\ err = "detect cycle"
    /\ Len(defs) = 3
    /\ \A d \in 1..3 : Len(defs[d].in) = 1 /\ defs[d].in[1] # d
    /\ Cardinality({ defs[d].in[1] : d \in 1..3 }) = 3

(* ------------------------------- C4 ----------------------------------- *)
\* The registered definitions that declare capability k.
Claimants(k) ==
    { d \in 1..Len(defs) :
         \E i \in 1..Len(defs[d].implements) : defs[d].implements[i] = k }
\* k has no exact binding and at least one claimant.
CapabilityOnly(k) ==
    (\A d \in 1..Len(defs) : defs[d].key # k) /\ Claimants(k) # {}

\* C4: for a capability with claimants and no exact binding, get returns
\* the claimant registered first; so do the wired in-edges, the arguments
\* handed to modifiers and Populate of the capability.
C4_FirstClaimant ==
    /\ \A k \in Keys :
          CapabilityOnly(k)
             => get(storage, k) = [err |-> "none", def |-> Min(Claimants(k))]
    /\ (stage \in {"verify", "modify"})
          => \A d \in 1..Len(defs) :
                \A i \in 1..Len(defs[d].provider.arguments) :
                   CapabilityOnly(defs[d].provider.arguments[i])
                      => defs[d].in[i] =
                            Min(Claimants(defs[d].provider.arguments[i]))
    /\ (last.op = "populate" /\ last.err = "none"
           /\ CapabilityOnly(key(last.target.typ, "")))
          => last.value.def = Min(Claimants(key(last.target.typ, "")))
    /\ \A i \in 1..Len(last.values) :
          CapabilityOnly(key(LastMod.ins[i], ""))
             => last.values[i].def = Min(Claimants(key(LastMod.ins[i], "")))

\* C4 witness: two claimants of I, no exact binding of I, and a Populate of
\* I that delivered the instance of the first.
C4_Witness ==
    /\ pc = "ready" /\ last.op = "populate" /\ last.err = "none"
    /\ last.target.typ = "I"
    /\ Cardinality(Claimants(key("I", ""))) >= 2
    /\ CapabilityOnly(key("I", ""))
    /\ last.value.def = Min(Claimants(key("I", "")))

(* ------------------------------- C5 ----------------------------------- *)
\* C5: when a constructor returns a failure, the Populate or the modifier
\* application that invoked it fails (the target gets nothing, the modifier
\* is not called and compile fails), the definition keeps no instance, and
\* the next Populate that resolves to that definition invokes its
\* constructor again.
C5_FailureNotCached ==
    [][ /\ (last.failed # 0)'
           => /\ last'.err = "ctor error"
              /\ last'.value = NoInstance
              /\ defs'[last'.failed].instance = NoInstance
              /\ last'.op = "apply"
                    => /\ pc' = "failed" /\ err' = "ctor error"
                       /\ modCalls'[mi'] = 0
        /\ (pc = "ready" /\ last.failed # 0 /\ last'.target.kind = "ptr"
              /\ Resolved(last'.target.typ) = last.failed)
           => ctorCalls'[last.failed] = ctorCalls[last.failed] + 1
        /\ \A d \in 1..Len(defs) :
              (defs[d].instance = NoInstance /\ defs'[d].instance # NoInstance)
                 => ctorCalls'[d] = ctorCalls[d] + 1 ]_vars

\* C5 witness: a constructor failed once, was invoked again by a later
\* Populate and then gave the instance the definition now holds.
C5_Witness ==
    /\ pc = "ready" /\ last.op = "populate" /\ last.err = "none"
    /\ ctorCalls[last.value.def] = 2
    /\ last.value = [def |-> last.value.def, n |-> 2]
    /\ Len(last.calls) = 1

(* ------------------------------- C6 ----------------------------------- *)
\* C6: Populate with nil, a nil pointer or a non-pointer returns the
\* invalid-target error and invokes no constructor.
C6_InvalidTargetIsError ==
    (last.op = "populate" /\ last.target.kind \in {"nil", "nilptr", "value"})
       => (last.err = "could not populate nil" /\ last.calls = <<>>)

(* ------------------------------- C7 ----------------------------------- *)
AllAccepted(ps) == \A i \in 1..Len(ps) : Accepted(ps[i])
Distinct(ps) ==
    \A i, j \in 1..Len(ps) : i # j => Ident(ps[i]) # Ident(ps[j])
\* Every declared argument type has an unnamed exact binding or a claimant.
AllArgsResolve(ps) ==
    \A i \in 1..Len(ps) : \A a \in 1..Len(ps[i].ins) :
       \E j \in 1..Len(ps) :
          \/ ps[j].result = ps[i].ins[a] /\ ps[j].name = ""
          \/ \E m \in 1..Len(ps[j].implements) :
                ps[j].implements[m] = ps[i].ins[a]
\* Populate of a pointer to type t in the current state, no constructor
\* failing.
PopulateNow(t) ==
    populate([kind |-> "ptr", typ |-> t], storage,
             [defs |-> defs, ctorCalls |-> ctorCalls, calls |-> <<>>,
              failed |-> 0], {})

\* C7 (as amended): for accepted registrations with pairwise distinct
\* identifiers, registration succeeds; if also every argument resolves and
\* the wired graph has no cycle, compile (without modifiers) succeeds; and
\* on a compiled container Populate of each unnamed registered identifier
\* succeeds whatever was populated before, unless a constructor it invokes
\* returns a failure.
C7_DistinctCompile ==
    (AllAccepted(providers) /\ Distinct(providers))
       => /\ stage = "register" => (pc # "failed" /\ err = "none")
          /\ (modifiers = <<>> /\ AllArgsResolve(providers)
                /\ (stage = "verify" => ~HasCycle))
             => (pc # "failed" /\ err = "none")
          /\ pc = "ready"
             => \A i \in 1..Len(providers) :
                   providers[i].name = ""
                      => LET r == PopulateNow(providers[i].result) IN
                         /\ r.err = "none"
                         /\ r.value.def = i

\* C7 witness: three distinct registrations compiled, and a Populate built
\* a definition together with the two it depends on.
C7_Witness ==
    /\ pc = "ready" /\ modifiers = <<>> /\ Len(providers) = 3
    /\ Distinct(providers)
    /\ last.op = "populate" /\ last.err = "none" /\ Len(last.calls) = 3

\* C7 as stated: distinct identifiers alone make compile succeed and every
\* registered identifier populatable.
C7_DistinctAlwaysCompiles ==
    (AllAccepted(providers) /\ Distinct(providers) /\ modifiers = <<>>)
       => /\ pc # "failed"
          /\ pc = "ready"
             => \A i \in 1..Len(providers) :
                   PopulateNow(providers[i].result).err = "none"

(* ------------------------------- C8 ----------------------------------- *)
\* No registered definition is bound to k or declares k.
Unresolved(k) ==
    \A d \in 1..Len(defs) :
       /\ defs[d].key # k
       /\ \A i \in 1..Len(defs[d].implements) : defs[d].implements[i] # k

\* C8: wiring fails, with "not provided", exactly when some argument of a
\* registered definition is unresolved; Populate of a pointer fails with
\* "not provided" exactly when its type is unresolved, and then invokes no
\* constructor and assigns nothing.
C8_Unresolved ==
    /\ stage = "wire"
          => /\ (pc = "failed" /\ err = "not provided")
                 <=> \E d \in 1..Len(defs) :
                        \E i \in 1..Len(defs[d].provider.arguments) :
                           Unresolved(defs[d].provider.arguments[i])
             /\ pc # "failed" => err = "none"
    /\ (last.op = "populate" /\ last.target.kind = "ptr")
          => /\ last.err = "not provided"
                 <=> Unresolved(key(last.target.typ, ""))
             /\ last.err = "not provided"
                 => (last.calls = <<>> /\ last.value = NoInstance)

\* C8 witness: wiring failed on an argument whose type is bound only under
\* a name.
C8_Witness ==
    /\ stage = "wire" /\ pc = "failed" /\ err = "not provided"
    /\ \E d, e \in 1..Len(defs) :
          /\ Len(defs[d].provider.arguments) > 0
          /\ Unresolved(defs[d].provider.arguments[1])
          /\ defs[e].key.typ = defs[d].provider.arguments[1].typ
          /\ defs[e].key.name = "n"

(* ------------------------------- C9 ----------------------------------- *)
\* C9: New ends either with a container, after every stage succeeded, or
\* with an error and no container.
C9_AllOrNothing ==
    /\ pc = "ready"
          => /\ err = "none" /\ stage \in {"verify", "modify"}
             /\ mi = Len(modifiers) + 1
    /\ pc \notin {"register", "wire", "verify", "modify", "ready"}
          => (pc = "failed" /\ err # "none")

(* ------------------------------- C10 ---------------------------------- *)
\* Not a function, more than one output, or one output that is no error.
InvalidSignature(mo) ==
    \/ mo.kind = "value"
    \/ mo.kind = "func" /\ (mo.numOut > 1 \/ (mo.numOut = 1 /\ ~mo.errOut))

\* C10: applying a modifier with an invalid signature fails compile with
\* the incorrect-modifier-signature error without resolving or constructing
\* anything and without calling the modifier; a list that holds such a
\* modifier never yields a container.
C10_SignatureFirst ==
    [][ /\ (pc = "modify" /\ InvalidSignature(modifiers[mi]))
           => /\ pc' = "failed" /\ err' = "incorrect modifier signature"
              /\ ctorCalls' = ctorCalls /\ defs' = defs
              /\ modCalls' = modCalls /\ last'.calls = <<>>
        /\ (\E i \in 1..Len(modifiers) : InvalidSignature(modifiers[i]))
           => pc' # "ready" ]_vars

\* C10 witness: compile failed on an invalid modifier whose argument was
\* provided, and no constructor has run.
C10_Witness ==
    /\ pc = "failed" /\ err = "incorrect modifier signature"
    /\ InvalidSignature(modifiers[mi]) /\ modifiers[mi].kind = "func"
    /\ Len(modifiers[mi].ins) > 0
    /\ Resolved(modifiers[mi].ins[1]) # 0
    /\ \A d \in 1..Len(defs) : ctorCalls[d] = 0

(* ------------------------------- C11 ---------------------------------- *)
\* The first registration that is not accepted (0: none).
FirstRejected(ps) ==
    IF \A i \in 1..Len(ps) : Accepted(ps[i]) THEN 0
    ELSE Min({ i \in 1..Len(ps) : ~Accepted(ps[i]) })

\* C11: wrapping a constructor succeeds exactly when it has one output, or
\* two of which the second is an error; every other arity fails with the
\* incorrect-provider-type error, which makes registration fail unless an
\* earlier registration repeats an identifier; and no constructor has been
\* invoked when the constructors have been wrapped and registered.
C11_WrapBySignature ==
    /\ \A i \in 1..Len(providers) :
          newFuncProvider(providers[i]).err =
             IF providers[i].numOut = 1
                \/ (providers[i].numOut = 2 /\ providers[i].errOut)
             THEN "none" ELSE "incorrect provider type"
    /\ stage = "register"
          => (err = "provide failed"
                <=> /\ FirstRejected(providers) # 0
                    /\ \A j \in 1..(FirstRejected(providers) - 1) :
                          ~Repeats(providers, j))
    /\ stage = "register"
          => \A d \in 1..Len(defs) :
                ctorCalls[d] = 0 /\ defs[d].instance = NoInstance

\* C11 witness: a constructor with an error as second output was wrapped
\* and registered, and the next one, with three outputs, was rejected.
C11_Witness ==
    /\ stage = "register" /\ pc = "failed" /\ err = "provide failed"
    /\ Len(providers) = 2 /\ Len(defs) = 1
    /\ providers[1].numOut = 2 /\ providers[1].errOut
    /\ providers[2].numOut = 3 /\ providers[2].errOut

(* ------------------------------- C12 ---------------------------------- *)
\* C12: a modifier with a valid signature whose arguments were built aborts
\* compilation only when it returns a failure: one that has no output, or
\* that declares a failure output and returns none, lets compile go on to
\* the next modifier or to a ready container.
C12_NilFailureContinues ==
    (last.op = "apply" /\ LastMod.kind = "func" /\ ~InvalidSignature(LastMod)
       /\ last.err \notin {"not provided", "ctor error"})
       => /\ (LastMod.numOut = 1 /\ LastMod.fails)
                => (pc = "failed" /\ err = "apply error")
          /\ ~(LastMod.numOut = 1 /\ LastMod.fails)
                => (pc \in {"modify", "ready"} /\ err = "none")

(* ------------------------------- C13 ---------------------------------- *)
\* The definitions registered under the identifier k itself.
ExactBindings(k) == { d \in 1..Len(defs) : defs[d].key = k }

\* C13: when an identifier has an exact binding, get returns that
\* definition, whatever definitions claim the identifier as a capability
\* and however early they were registered; so do the wired in-edges,
\* Populate and the arguments handed to modifiers.
C13_ExactFirst ==
    /\ \A k \in Keys :
          ExactBindings(k) # {}
             => /\ Cardinality(ExactBindings(k)) = 1
                /\ get(storage, k).err = "none"
                /\ get(storage, k).def \in ExactBindings(k)
    /\ (stage \in {"verify", "modify"})
          => \A d \in 1..Len(defs) :
                \A i \in 1..Len(defs[d].provider.arguments) :
                   ExactBindings(defs[d].provider.arguments[i]) # {}
                      => defs[d].in[i] \in
                            ExactBindings(defs[d].provider.arguments[i])
    /\ (last.op = "populate" /\ last.err = "none"
           /\ ExactBindings(key(last.target.typ, "")) # {})
          => last.value.def \in ExactBindings(key(last.target.typ, ""))
    /\ \A i \in 1..Len(last.values) :
          ExactBindings(key(LastMod.ins[i], "")) # {}
             => last.values[i].def \in ExactBindings(key(LastMod.ins[i], ""))

\* C13 witness: I is claimed as a capability by a definition registered
\* before the exact binding of I, and a Populate of I delivered the
\* instance of the exact binding.
C13_Witness ==
    /\ pc = "ready" /\ last.op = "populate" /\ last.err = "none"
    /\ last.target.typ = "I"
    /\ ExactBindings(key("I", "")) # {}
    /\ Claimants(key("I", "")) # {}
    /\ \A d \in ExactBindings(key("I", "")) :
          Min(Claimants(key("I", ""))) < d /\ last.value.def = d

(* ------------------------------- C14 ---------------------------------- *)
\* Registration i is refused: nil, a rejected signature, or an identifier
\* already bound.
Refused(ps, i) == ps[i].kind = "nil" \/ ~Accepted(ps[i]) \/ Repeats(ps, i)
FirstRefused(ps) ==
    IF \A i \in 1..Len(ps) : ~Refused(ps, i) THEN 0
    ELSE Min({ i \in 1..Len(ps) : Refused(ps, i) })
\* The error of the first refused registration.
RegistrationError(ps) ==
    IF FirstRefused(ps) = 0 THEN "none"
    ELSE IF ps[FirstRefused(ps)].kind = "nil" THEN "could not provide nil"
    ELSE IF ~Accepted(ps[FirstRefused(ps)]) THEN "provide failed"
    ELSE "already provided"
\* Some argument of a registered definition resolves to nothing.
SomeUnresolved ==
    \E d \in 1..Len(defs) :
       \E i \in 1..Len(defs[d].provider.arguments) :
          Unresolved(defs[d].provider.arguments[i])

\* What every state shows of the stage order.
StageOrder ==
    \* nothing is constructed or modified before the cycle check passed
    /\ (stage \in {"none", "register", "wire"}
           \/ (stage = "verify" /\ pc = "failed"))
          => /\ \A d \in 1..Len(defs) : ctorCalls[d] = 0
             /\ \A j \in 1..Len(modifiers) : modCalls[j] = 0
             /\ mi = 1 /\ last = NoLast
    \* a stage is entered only when the stages before it succeeded
    /\ stage \in {"wire", "verify", "modify"}
          => (FirstRefused(providers) = 0 /\ Len(defs) = Len(providers))
    /\ stage \in {"verify", "modify"} => ~SomeUnresolved
    /\ stage = "modify" => ~HasCycle
    \* the error reported is the one of the first failure
    /\ stage = "register"
          => /\ err = RegistrationError(providers)
             /\ pc = (IF err = "none" THEN "wire" ELSE "failed")
             /\ Len(defs) = (IF FirstRefused(providers) = 0
                             THEN Len(providers)
                             ELSE FirstRefused(providers) - 1)
    /\ stage = "wire"
          => /\ err = (IF SomeUnresolved THEN "not provided" ELSE "none")
             /\ pc = (IF err = "none" THEN "verify" ELSE "failed")
    /\ stage = "verify"
          => /\ err = (IF HasCycle THEN "detect cycle" ELSE "none")
             /\ pc = (IF err # "none" THEN "failed"
                      ELSE IF modifiers = <<>> THEN "ready" ELSE "modify")
    /\ (stage = "modify" /\ pc = "failed")
          => (last.op = "apply" /\ err = last.err /\ err # "none"
                /\ mi <= Len(modifiers))
    \* modifiers run in registration order, each once, up to the first
    \* that fails
    /\ \A j \in 1..Len(modifiers) :
          /\ j < mi => modCalls[j] = 1
          /\ j = mi => modCalls[j] <= 1
          /\ j > mi => modCalls[j] = 0
    /\ (pc = "ready" /\ modifiers # <<>>)
          => (stage = "modify" /\ mi = Len(modifiers) + 1)

\* C14: the stages run in the order register, wire, cycle check, apply
\* modifiers, each once and none re-entered; no constructor is invoked and
\* no modifier called before the first three have succeeded; modifiers are
\* applied in registration order up to the first that fails; and the error
\* New reports is the first failure in stage order and, within a stage, in
\* registration order.
C14_StageOrder ==
    /\ []StageOrder
    /\ [][
        /\ <<pc, pc'>> \in
             { <<"register", "wire">>, <<"register", "failed">>,
               <<"wire", "verify">>, <<"wire", "failed">>,
               <<"verify", "modify">>, <<"verify", "ready">>,
               <<"verify", "failed">>,
               <<"modify", "modify">>, <<"modify", "ready">>,
               <<"modify", "failed">>, <<"modify", "panicked">>,
               <<"ready", "ready">> }
        /\ <<stage, stage'>> \in
             { <<"none", "register">>, <<"register", "wire">>,
               <<"wire", "verify">>, <<"verify", "modify">>,
               <<"modify", "modify">>, <<"verify", "verify">> }
        /\ stage' = stage => pc \in {"modify", "ready"}
        /\ pc = "modify"
             => /\ mi' \in {mi, mi + 1}
                /\ (mi' = mi) <=> (pc' \in {"failed", "panicked"})
                /\ \A j \in 1..Len(modifiers) :
                      j # mi => modCalls'[j] = modCalls[j]
        /\ pc # "modify" => (mi' = mi /\ modCalls' = modCalls)
       ]_vars

\* C14 witness: the first modifier ran, the second failed and was not
\* called, and New reports the error of the second.
C14_Witness ==
    /\ stage = "modify" /\ pc = "failed"
    /\ Len(modifiers) = 2 /\ mi = 2
    /\ modCalls = <<1, 0>>
    /\ err = last.err /\ err # "none"

(* ------------------------------- C15 ---------------------------------- *)
\* C15: on a container that passed the cycle check, no Populate and no
\* instantiation of a modifier's arguments recurses without end: the
\* resolution never needs a call stack deeper than the number of
\* definitions, and invokes each constructor at most once.
C15_Terminates ==
    /\ last.err # "overflow"
    /\ Len(last.calls) <= Len(defs)
    /\ \A i, j \in 1..Len(last.calls) :
          i # j => last.calls[i].def # last.calls[j].def
    /\ pc = "ready"
          => \A t \in Types : PopulateNow(t).err # "overflow"

\* C15 witness: a Populate that resolved a chain of three definitions, each
\* the only argument of the next.
C15_Witness ==
    /\ pc = "ready" /\ last.op = "populate" /\ last.err = "none"
    /\ Len(last.calls) = 3
    /\ last.calls[1].values = <<>>
    /\ \A i \in 2..3 :
          /\ Len(last.calls[i].values) = 1
          /\ last.calls[i].values[1].def = last.calls[i - 1].def

(* ------------------------------- C16 ---------------------------------- *)
\* The position of definition e among the constructor calls of the last
\* operation (0: not called).
CallIndex(e) ==
    IF \E j \in 1..Len(last.calls) : last.calls[j].def = e
    THEN Min({ j \in 1..Len(last.calls) : last.calls[j].def = e })
    ELSE 0

\* C16: in every Populate and every modifier application, a constructor is
\* invoked only when each of its argument definitions holds an instance,
\* made earlier in the same operation or before it; arguments that are
\* still to be made are made in declared order, each with all it depends
\* on first; and the values handed to the constructor are the memoized
\* instances of the definitions get returns for its declared arguments, in
\* that order.
C16_DependencyFirst ==
    \A i \in 1..Len(last.calls) :
       LET d == last.calls[i].def
           vals == last.calls[i].values
           arguments == defs[d].provider.arguments
       IN /\ Len(vals) = Len(arguments)
          /\ \A a \in 1..Len(arguments) :
                LET e == get(storage, arguments[a]).def IN
                /\ defs[e].instance # NoInstance
                /\ vals[a] = defs[e].instance
                /\ CallIndex(e) < i
          /\ \A a, b \in 1..Len(arguments) :
                LET ea == get(storage, arguments[a]).def
                    eb == get(storage, arguments[b]).def
                IN (a < b /\ CallIndex(ea) # 0 /\ CallIndex(eb) # 0
                      /\ eb \notin ReachableIn({ea}, Len(defs)))
                      => CallIndex(ea) < CallIndex(eb)

\* C16 witness: a Populate made a definition with two arguments: first the
\* definition of the first argument, then that of the second, then the
\* constructor itself with both instances in declared order.
C16_Witness ==
    /\ pc = "ready" /\ last.op = "populate" /\ last.err = "none"
    /\ Len(last.calls) = 3
    /\ Len(last.calls[3].values) = 2
    /\ last.calls[3].values[1] = [def |-> last.calls[1].def, n |-> 1]
    /\ last.calls[3].values[2] = [def |-> last.calls[2].def, n |-> 1]
    /\ last.value.def = last.calls[3].def

(* ------------------------------- C17 ---------------------------------- *)
\* The definitions the identifiers of ts resolve to.
ResolvedOf(ts) ==
    { get(storage, key(t, "")).def : t \in ts } \ {0}
\* The definitions a step may have to instantiate: those the modifier's
\* arguments or the target of Populate resolve to, and all they depend on.
Demanded(ts) == ReachableIn(ResolvedOf(ts), Len(defs))

\* C17: a step invokes a constructor only for a definition that the
\* target of the Populate or an argument of the modifier being applied
\* resolves to, or that such a definition depends on, directly or not;
\* registration, wiring and the cycle check invoke none, so a container
\* without modifiers is compiled with no constructor invoked.
C17_Lazy ==
    [][ /\ pc \in {"register", "wire", "verify"}
             => \A d \in 1..Len(defs') : ctorCalls'[d] = 0
        /\ pc = "modify"
             => /\ last'.op = "apply"
                /\ \A d \in 1..Len(defs) :
                      ctorCalls'[d] # ctorCalls[d]
                         => /\ modifiers[mi].kind = "func"
                            /\ d \in Demanded({ modifiers[mi].ins[i] :
                                     i \in 1..Len(modifiers[mi].ins) })
        /\ pc = "ready"
             => /\ last'.op = "populate"
                /\ \A d \in 1..Len(defs) :
                      ctorCalls'[d] # ctorCalls[d]
                         => /\ last'.target.kind = "ptr"
                            /\ d \in Demanded({last'.target.typ})
        /\ (modifiers = <<>> /\ last'.op = "none")
             => \A d \in 1..Len(defs') :
                   ctorCalls'[d] = 0 /\ defs'[d].instance = NoInstance
      ]_vars

\* C17 witness: on a container compiled without modifiers, a Populate
\* has invoked constructors while another registered definition, which
\* the target does not depend on, has never been instantiated.
C17_Witness ==
    /\ pc = "ready" /\ modifiers = <<>>
    /\ last.op = "populate" /\ last.err = "none" /\ Len(last.calls) = 2
    /\ \E d \in 1..Len(defs) :
          /\ ctorCalls[d] = 0 /\ defs[d].instance = NoInstance
          /\ d \notin Demanded({last.target.typ})

(* ------------------------------- C18 ---------------------------------- *)
\* How many times x occurs in the sequence q.
Occurrences(x, q) == Cardinality({ i \in 1..Len(q) : q[i] = x })

\* The edge lists once wiring has succeeded.
EdgesConsistent ==
    (stage \in {"verify", "modify"} \/ (stage = "wire" /\ pc = "verify"))
       => /\ \A d, e \in 1..Len(defs) :
                Occurrences(e, defs[d].in) = Occurrences(d, defs[e].out)
          /\ \A d \in 1..Len(defs) :
                /\ Len(defs[d].in) = Len(defs[d].provider.arguments)
                /\ \A i \in 1..Len(defs[d].in) :
                      defs[d].in[i] =
                         get(storage, defs[d].provider.arguments[i]).def

\* C18: after wiring has succeeded, e occurs in the incoming list of d as
\* often as d occurs in the outgoing list of e; the incoming list of a
\* definition has one entry for each declared argument, the definition get
\* returns for it; and the cycle check, the modifiers and Populate leave
\* both lists of every definition as wiring made them.
C18_EdgeLists ==
    /\ []EdgesConsistent
    /\ [][
        pc \notin {"register", "wire"}
             => /\ Len(defs') = Len(defs)
                /\ storage' = storage
                /\ \A d \in 1..Len(defs) :
                      /\ defs'[d].in = defs[d].in
                      /\ defs'[d].out = defs[d].out
                      /\ defs'[d].provider = defs[d].provider
      ]_vars

\* C18 witness: after the cycle check and a Populate that made instances,
\* a definition has two incoming edges and each of the two definitions it
\* depends on has it in its outgoing list.
C18_Witness ==
    /\ pc = "ready" /\ last.op = "populate" /\ last.calls # <<>>
    /\ \A d \in 1..Len(defs) : defs[d].visited = visitMarkPermanent
    /\ \E d \in 1..Len(defs) :
          /\ Len(defs[d].in) = 2 /\ defs[d].in[1] # defs[d].in[2]
          /\ \A i \in 1..2 : defs[defs[d].in[i]].out = <<d>>

(* ------------------------------- C19 ---------------------------------- *)
\* The callers whose Populate has returned a value.
Served == { c \in 1..MaxCallers :
              callers[c].state = "done" /\ callers[c].err = "none" }

\* C19: concurrent callers of Populate each get an instance of the
\* definition their target resolves to, or the error of get; when the
\* instantiation of a definition is serialized, no constructor is invoked
\* twice and callers of the same target get the same instance.  (Without
\* it a constructor can be invoked twice: the state of the witness.)
C19_SerializedOnce ==
    /\ \A c \in 1..MaxCallers :
          (callers[c].state = "done" /\ callers[c].target.kind = "ptr")
             => LET k == key(callers[c].target.typ, "") IN
                IF ExactBindings(k) # {}
                THEN /\ callers[c].err = "none"
                     /\ callers[c].value.def \in ExactBindings(k)
                     /\ callers[c].value.n \in
                           1..ctorCalls[callers[c].value.def]
                ELSE IF Claimants(k) # {}
                THEN /\ callers[c].err = "none"
                     /\ callers[c].value.def = Min(Claimants(k))
                     /\ callers[c].value.n \in
                           1..ctorCalls[callers[c].value.def]
                ELSE callers[c].err = "not provided"
    /\ \A d \in 1..Len(defs) : ctorCalls[d] <= MaxCallers
    /\ serialized
          => /\ \A d \in 1..Len(defs) : ctorCalls[d] <= 1
             /\ \A c1, c2 \in Served :
                   callers[c1].value.def = callers[c2].value.def
                      => callers[c1].value = callers[c2].value

\* C19 witness: on the reference design two callers populated the same
\* target, its constructor was invoked twice and they hold different
\* instances.
C19_Witness ==
    /\ ~serialized
    /\ \E c1, c2 \in Served :
          /\ callers[c1].target = callers[c2].target
          /\ callers[c1].value.def = callers[c2].value.def
          /\ callers[c1].value # callers[c2].value
          /\ ctorCalls[callers[c1].value.def] = 2
====
